---- MODULE Spec2Model ----
(***************************************************************************)
(* Hacker News API client (getItem, getStoryIds, getStories,               *)
(* getCommentTree) and the tool handlers that call it (story listing       *)
(* tools, hn_get_comments).                                                *)
(*                                                                         *)
(* One behaviour is one call on one event loop.  Every action is one turn  *)
(* of the loop: a call runs to its first await; or the fetch of one call   *)
(* settles (it fails, or its response is there with its status); or the    *)
(* body of one response has been read.  In a turn every continuation that  *)
(* becomes runnable (fetchJson after its await, the async function that    *)
(* awaits it, Promise.all of its parent, the parent's own continuation,    *)
(* ... up to the tool handler) runs before the next event is taken.        *)
(***************************************************************************)
EXTENDS Integers, Sequences, FiniteSets, TLC

VARIABLES
  world,    \* the origin system's items and listings
  call,     \* the call in progress and its arguments
  tasks,    \* the pending and settled async calls, by their place in the call tree
  fetches,  \* the fetches issued so far
  outcome,  \* how the promise of the outermost core call stands
  reply,    \* what the tool handler answered
  last      \* the place of the call whose fetch or body came in the latest turn

vars == <<world, call, tasks, fetches, outcome, reply, last>>

(***************************************************************************)
(* Bounds of the model.                                                    *)
(***************************************************************************)
\* direct calls of getCommentTree use maxDepth in 0..MaxDepthArg
MaxDepthArg == 2
\* a call is explored when the unfolding it can fetch has at most MaxTasks nodes
MaxTasks == 7
\* direct calls of getStories use limit in 1..MaxLimitArg
MaxLimitArg == 3
\* direct calls of getStories use offset in 0..MaxOffsetArg
MaxOffsetArg == 5

(***************************************************************************)
(* Values.                                                                 *)
(***************************************************************************)
\* JSON null / a promise fulfilled with null: absence
Null == [null |-> TRUE]

Kinds == {"topstories", "newstories", "beststories",
          "askstories", "showstories", "jobstories"}

\* F(x), with x evaluated once however often F uses it
Once(F(_), x) == CHOOSE r \in {F(v) : v \in {x}} : TRUE

Max(a, b) == IF a >= b THEN a ELSE b

Min(a, b) == IF a <= b THEN a ELSE b

\* Array.prototype.slice(start, end) for 0 <= start <= end
slice(arr, start, end) ==
  LET lo == Min(start, Len(arr))
      hi == Min(end, Len(arr))
  IN  [i \in 1..Max(hi - lo, 0) |-> arr[lo + i]]

\* arr.filter(x => x !== null)
RECURSIVE filterNotNull(_)
filterNotNull(arr) ==
  IF arr = <<>> THEN <<>>
  ELSE IF Head(arr) = Null THEN filterNotNull(Tail(arr))
       ELSE <<Head(arr)>> \o filterNotNull(Tail(arr))

(***************************************************************************)
(* The origin system: what the item endpoint and the listing endpoints     *)
(* answer with a success status.  An id the origin does not know is        *)
(* answered with the JSON value null.                                      *)
(***************************************************************************)
ItemIds == 1..5

\* the scenario of a root with a leaf child and a deleted child
WorldLeaf ==
  [items |->
     (1 :> [id |-> 1, by |-> "pg", text |-> "root", time |-> 100, kids |-> <<2, 3>>]) @@
     (2 :> [id |-> 2, by |-> "ann", text |-> "first", time |-> 101, kids |-> <<>>]) @@
     (3 :> [id |-> 3, time |-> 102]) @@
     (4 :> Null) @@
     (5 :> [id |-> 5, by |-> "bob", text |-> "job", kids |-> <<2, 4, 3>>]),
   lists |-> [k \in Kinds |->
     IF k = "topstories" THEN <<1, 2, 3, 4>>
     ELSE IF k = "jobstories" THEN <<5>>
     ELSE <<>>]]

\* child ids that repeat and child ids that form cycles
WorldCycle ==
  [items |->
     (1 :> [id |-> 1, by |-> "pg", text |-> "a", time |-> 100, kids |-> <<2, 2>>]) @@
     (2 :> [id |-> 2, by |-> "ann", time |-> 101, kids |-> <<1>>]) @@
     (3 :> [id |-> 3, text |-> "self", time |-> 102, kids |-> <<3>>]) @@
     (4 :> [id |-> 4, by |-> "cy", text |-> "d", time |-> 103, kids |-> <<3, 5>>]) @@
     (5 :> [id |-> 5, by |-> "bob", text |-> "e", time |-> 104, kids |-> <<4>>]),
   lists |-> [k \in Kinds |->
     IF k = "newstories" THEN <<3, 1, 3>>
     ELSE IF k = "askstories" THEN <<2, 4>>
     ELSE <<5, 4>>]]

Worlds == {WorldLeaf, WorldCycle}

\* a fetch that has not settled
Pending == [status |-> 0, body |-> "none"]

\* a fetch that rejected: the network failed, there is no response
Failed == [status |-> 0, body |-> "failed"]

\* how an awaited fetch(url) settles: it rejects, or it resolves with a
\* response whose status is known and whose body is still to be read
Settlements == {Failed,
                [status |-> 200, body |-> "unread"],
                [status |-> 404, body |-> "unread"]}

\* what res.json() finds the body of a response to be
Bodies == {"json", "garbage"}

\* Response.ok
ResOk(res) == res.status >= 200 /\ res.status <= 299

ItemUrl(id) == [endpoint |-> "item", key |-> id]

ListUrl(kind) == [endpoint |-> kind, key |-> 0]

\* what the origin sends for a url with a success status (a JSON array is
\* the record [array |-> its elements])
Origin(w, url) ==
  IF url.endpoint = "item" THEN w.items[url.key]
  ELSE [array |-> w.lists[url.endpoint]]

(***************************************************************************)
(* fetchJson.  It awaits twice: fetch(url), then res.json().  A promise is *)
(* a record: pc, the value it resolved with, the error it rejected with.   *)
(* An error is told from every other by its kind and by the call (its      *)
(* place p among the calls) whose fetchJson threw it.                      *)
(***************************************************************************)
NoError == [kind |-> "none", at |-> <<>>]

Resolved(v) == [pc |-> "resolved", value |-> v, err |-> NoError]

Rejected(kind, p) == [pc |-> "rejected", value |-> Null, err |-> [kind |-> kind, at |-> p]]

Suspended == [pc |-> "reading", value |-> Null, err |-> NoError]

\* fetchJson throwing on a non-success status
fetchJsonThrowOnStatus(p, res) ==
  IF res = Failed THEN Rejected("TypeError", p)
  ELSE IF ~ResOk(res) THEN Rejected("HttpError", p)
  ELSE Suspended

\* fetchJson after await fetch(url) settled as res: its rejection is thrown
\* on, a non-success response returns null, else res.json() is awaited
fetchJson(p, res) ==
  IF res = Failed THEN Rejected("TypeError", p)
  ELSE IF ~ResOk(res) THEN Resolved(Null)
  ELSE Suspended

\* the parse failure caught and turned into absence
resJsonSwallow(p, body, data) ==
  IF body # "json" THEN Resolved(Null) ELSE Resolved(data)

\* fetchJson after await res.json(): the parse failure is thrown on, else the
\* data the origin sent is returned
resJson(p, body, data) ==
  IF body # "json" THEN Rejected("SyntaxError", p) ELSE Resolved(data)

\* a join that settles with the first promise that does, the others read as null
PromiseAllEager(ps) ==
  IF \E i \in DOMAIN ps : ps[i].pc = "rejected"
    THEN [pc |-> "rejected", values |-> <<>>,
          err |-> ps[CHOOSE i \in DOMAIN ps : ps[i].pc = "rejected"].err]
  ELSE IF ps = <<>> \/ \E i \in DOMAIN ps : ps[i].pc = "resolved"
    THEN [pc |-> "resolved", values |-> [i \in DOMAIN ps |-> ps[i].value],
          err |-> NoError]
  ELSE [pc |-> "pending", values |-> <<>>, err |-> NoError]

\* Promise.all over the promises ps: rejected with the error of the promise
\* that rejected (the call awaiting it runs on at the first rejection, so
\* there is one), resolved with all values in the order of ps
PromiseAll(ps) ==
  IF \E i \in DOMAIN ps : ps[i].pc = "rejected"
    THEN [pc |-> "rejected", values |-> <<>>,
          err |-> ps[CHOOSE i \in DOMAIN ps : ps[i].pc = "rejected"].err]
  ELSE IF \A i \in DOMAIN ps : ps[i].pc = "resolved"
    THEN [pc |-> "resolved", values |-> [i \in DOMAIN ps |-> ps[i].value],
          err |-> NoError]
  ELSE [pc |-> "pending", values |-> <<>>, err |-> NoError]

(***************************************************************************)
(* getCommentTree.                                                         *)
(***************************************************************************)
\* the depth check off by one
TreeEntryOffByOne(itemId, maxDepth, currentDepth) ==
  IF currentDepth > maxDepth + 1
    THEN [id |-> itemId, depth |-> currentDepth, pc |-> "resolved",
          issued |-> FALSE, res |-> Pending, value |-> Null, err |-> NoError]
    ELSE [id |-> itemId, depth |-> currentDepth, pc |-> "fetching",
          issued |-> TRUE, res |-> Pending, value |-> Null, err |-> NoError]

\* the depth check and the getItem call that follows it
TreeEntry(itemId, maxDepth, currentDepth) ==
  IF currentDepth > maxDepth
    THEN [id |-> itemId, depth |-> currentDepth, pc |-> "resolved",
          issued |-> FALSE, res |-> Pending, value |-> Null, err |-> NoError]
    ELSE [id |-> itemId, depth |-> currentDepth, pc |-> "fetching",
          issued |-> TRUE, res |-> Pending, value |-> Null, err |-> NoError]

\* item.kids && currentDepth < maxDepth
ShouldExpand(item, maxDepth, currentDepth) ==
  "kids" \in DOMAIN item /\ currentDepth < maxDepth

\* the children put in front of the array instead of at its end
RECURSIVE CollectChildrenReversed(_)
CollectChildrenReversed(childResults) ==
  IF childResults = <<>> THEN <<>>
  ELSE IF Head(childResults) # Null
         THEN CollectChildrenReversed(Tail(childResults)) \o <<Head(childResults)>>
         ELSE CollectChildrenReversed(Tail(childResults))

\* for (const child of childResults) if (child) children.push(child)
RECURSIVE CollectChildren(_)
CollectChildren(childResults) ==
  IF childResults = <<>> THEN <<>>
  ELSE IF Head(childResults) # Null
         THEN <<Head(childResults)>> \o CollectChildren(Tail(childResults))
         ELSE CollectChildren(Tail(childResults))

\* the node getCommentTree returns
TreeNode(item, children) ==
  [id |-> item.id,
   by |-> IF "by" \in DOMAIN item THEN item.by ELSE "[deleted]",
   text |-> IF "text" \in DOMAIN item THEN item.text ELSE "",
   children |-> children]
  @@ (IF "time" \in DOMAIN item THEN [time |-> item.time] ELSE <<>>)

Parent(p) == SubSeq(p, 1, Len(p) - 1)

\* the recursive calls made with currentDepth instead of currentDepth + 1
ChildCallsSameDepth(p, kids, maxDepth, currentDepth) ==
  [q \in {Append(p, i) : i \in DOMAIN kids} |->
     TreeEntry(kids[q[Len(q)]], maxDepth, currentDepth)]

\* the calls getCommentTree(kid, maxDepth, currentDepth + 1) made by the call at p
ChildCalls(p, kids, maxDepth, currentDepth) ==
  [q \in {Append(p, i) : i \in DOMAIN kids} |->
     TreeEntry(kids[q[Len(q)]], maxDepth, currentDepth + 1)]

\* the promises the call at p awaits with Promise.all, in the order of item.kids
ChildPromises(ts, p, item) == [i \in DOMAIN item.kids |-> ts[Append(p, i)]]

\* the call at p, suspended on Promise.all, runs on if Promise.all has settled;
\* its own settling lets its parent run on in the same way
RECURSIVE TreeResume(_, _, _)
TreeResume(w, ts, p) ==
  LET item == w.items[ts[p].id]
      all  == PromiseAll(ChildPromises(ts, p, item))
      ts2  == [ts EXCEPT ![p].pc = all.pc,
                         ![p].err = all.err,
                         ![p].value = IF all.pc = "resolved"
                                        THEN TreeNode(item, CollectChildren(all.values))
                                        ELSE Null]
  IN  IF ts[p].pc # "awaiting" \/ all.pc = "pending" THEN ts
      ELSE IF p = <<>> THEN ts2
      ELSE Once(LAMBDA t : TreeResume(w, t, Parent(p)), ts2)

\* the call at p runs on after its getItem settled as got
TreeAfterItem(w, ts, p, maxDepth, got) ==
  LET t == ts[p]
      done(r) == LET ts1 == [ts EXCEPT ![p].pc = r.pc, ![p].value = r.value,
                                       ![p].err = r.err]
                 IN  IF p = <<>> THEN ts1
                     ELSE Once(LAMBDA t1 : TreeResume(w, t1, Parent(p)), ts1)
  IN  IF got.pc = "rejected" THEN done(got)
      ELSE IF got.value = Null THEN done(Resolved(Null))
      ELSE IF ShouldExpand(got.value, maxDepth, t.depth)
        THEN Once(LAMBDA t2 : TreeResume(w, t2, p),
                  [ts EXCEPT ![p].pc = "awaiting"]
                    @@ ChildCalls(p, got.value.kids, maxDepth, t.depth))
      ELSE done(Resolved(TreeNode(got.value, <<>>)))

\* the fetches the calls of ts issue that those of old had not
NewFetches(old, ts, currentDepth) ==
  {[url |-> ItemUrl(ts[p].id), path |-> p, level |-> currentDepth + Len(p)] :
     p \in {q \in DOMAIN ts \ DOMAIN old : ts[q].issued}}

\* how the outermost promise stands
Settled(t) ==
  IF t.pc = "resolved" THEN [state |-> "returned", value |-> t.value, err |-> NoError]
  ELSE IF t.pc = "rejected" THEN [state |-> "threw", value |-> Null, err |-> t.err]
  ELSE [state |-> "pending", value |-> Null, err |-> NoError]

NoTasks == [p \in {} |-> Null]

NoReply == [state |-> "none"]

Init ==
  /\ world \in Worlds
  /\ call = [op |-> "none"]
  /\ tasks = NoTasks
  /\ fetches = {}
  /\ outcome = [state |-> "idle", value |-> Null, err |-> NoError]
  /\ reply = NoReply
  /\ last = <<0>>

\* the number of nodes of the unfolding of the item graph from id, levels depth..maxDepth
RECURSIVE Unfolding(_, _, _, _)
Unfolding(w, id, maxDepth, depth) ==
  IF depth > maxDepth THEN 0
  ELSE LET item == w.items[id]
           RECURSIVE sum(_)
           sum(ks) == IF ks = <<>> THEN 0
                      ELSE Unfolding(w, Head(ks), maxDepth, depth + 1) + sum(Tail(ks))
       IN  IF item = Null \/ ~("kids" \in DOMAIN item) \/ depth >= maxDepth THEN 1
           ELSE 1 + sum(item.kids)

(***************************************************************************)
(* getStoryIds and getStories.                                             *)
(***************************************************************************)
\* getStoryIds failing on absence instead of coercing it to no results
getStoryIdsThrowOnAbsent(got) ==
  IF got.pc = "rejected" THEN got
  ELSE IF got.value = Null THEN Rejected("TypeError", <<>>)
  ELSE Resolved(got.value.array)

\* ids ?? [] after the awaited fetchJson settled as got
getStoryIds(got) ==
  IF got.pc = "rejected" THEN got
  ELSE Resolved(IF got.value = Null THEN <<>> ELSE got.value.array)

\* the page cut with limit as its end
PageIdsEndIsLimit(allIds, limit, offset) == slice(allIds, offset, limit)

\* allIds.slice(offset, offset + limit)
PageIds(allIds, limit, offset) == slice(allIds, offset, offset + limit)

\* the value getStories returns
StoriesResult(items, allIds) ==
  [items |-> filterNotNull(items), total |-> Len(allIds)]

\* the getStories call
StoriesEntry(kind) ==
  [id |-> kind, pc |-> "fetching", issued |-> TRUE, res |-> Pending,
   value |-> Null, err |-> NoError, allIds |-> <<>>, pageIds |-> <<>>]

\* the calls getItem(id) made by pageIds.map
ItemCalls(pageIds) ==
  [q \in {<<i>> : i \in DOMAIN pageIds} |->
     [id |-> pageIds[q[1]], pc |-> "fetching", issued |-> TRUE, res |-> Pending,
      value |-> Null, err |-> NoError]]

\* getStories, suspended on Promise.all, runs on if Promise.all has settled
StoriesResume(ts) ==
  LET t   == ts[<<>>]
      all == PromiseAll([i \in DOMAIN t.pageIds |-> ts[<<i>>]])
  IN  IF t.pc # "awaiting" \/ all.pc = "pending" THEN ts
      ELSE [ts EXCEPT ![<<>>].pc = all.pc,
                      ![<<>>].err = all.err,
                      ![<<>>].value = IF all.pc = "resolved"
                                        THEN StoriesResult(all.values, t.allIds)
                                        ELSE Null]

\* getStories runs on after its getStoryIds settled as got
StoriesAfterIds(ts, limit, offset, got) ==
  IF got.pc = "rejected" THEN [ts EXCEPT ![<<>>].pc = "rejected", ![<<>>].err = got.err]
  ELSE LET pageIds == PageIds(got.value, limit, offset)
       IN  StoriesResume([ts EXCEPT ![<<>>].pc = "awaiting",
                                    ![<<>>].allIds = got.value,
                                    ![<<>>].pageIds = pageIds]
                           @@ ItemCalls(pageIds))

\* the fetches the calls of ts issue that those of old had not
NewItemFetches(old, ts) ==
  {[url |-> ItemUrl(ts[p].id), path |-> p, level |-> Len(p)] :
     p \in {q \in DOMAIN ts \ DOMAIN old : ts[q].issued}}

(***************************************************************************)
(* The tool handlers.                                                      *)
(***************************************************************************)
MinDepth == 1

MaxDepth == 5

MinLimit == 1

MaxLimit == 50

\* the numbers a handler is tried with: around both ends of its range
RawDepths == (MinDepth - 2)..(MaxDepth + 2)

RawLimits == ((MinLimit - 1)..(MinLimit + 1)) \cup (MaxLimit..(MaxLimit + 1))

RawOffsets == (0 - 1)..1

\* clamp without its lower end
clampNoLower(value, min, max) == Min(max, value)

clamp(value, min, max) == Max(min, Min(max, value))

\* the depth hn_get_comments passes on
SafeDepth(depth) == clamp(depth, MinDepth, MaxDepth)

\* the limit and the offset a story tool passes on
SafeLimit(limit) == clamp(limit, MinLimit, MaxLimit)

SafeOffset(offset) == Max(0, offset)

\* what hn_get_comments answers once getCommentTree has settled as out
CommentsReply(out) ==
  IF out.state = "pending" THEN NoReply
  ELSE IF out.state = "threw" THEN [state |-> "threw", err |-> out.err]
  ELSE IF out.value = Null
    THEN [state |-> "sent", isError |-> TRUE, text |-> "not found"]
  ELSE [state |-> "sent", isError |-> FALSE, text |-> "tree", tree |-> out.value]

\* what a story tool answers once getStories has settled as out
StoriesReply(out, safeOffset) ==
  IF out.state = "pending" THEN NoReply
  ELSE IF out.state = "threw" THEN [state |-> "threw", err |-> out.err]
  ELSE IF Len(out.value.items) = 0
    THEN [state |-> "sent", isError |-> FALSE, text |-> "no stories",
          offset |-> safeOffset, total |-> out.value.total]
  ELSE [state |-> "sent", isError |-> FALSE, text |-> "page",
        first |-> safeOffset + 1, last |-> safeOffset + Len(out.value.items),
        total |-> out.value.total, items |-> out.value.items]

TreeOps == {"getCommentTree", "hn_get_comments"}

StoryOps == {"getStories", "story_tool"}

\* the handler of the call in progress runs on when the core call has settled
Reply(c, out) ==
  IF c.op = "hn_get_comments" THEN CommentsReply(out)
  ELSE IF c.op = "story_tool" THEN StoriesReply(out, c.offset)
  ELSE NoReply

(***************************************************************************)
(* Actions.                                                                *)
(***************************************************************************)
\* the core call getCommentTree(itemId, maxDepth, currentDepth) starts
StartTree(c) ==
  /\ Unfolding(world, c.itemId, c.maxDepth, c.currentDepth) <= MaxTasks
  /\ call' = c
  /\ tasks' = (<<>> :> TreeEntry(c.itemId, c.maxDepth, c.currentDepth))
  /\ fetches' = fetches \cup NewFetches(tasks, tasks', c.currentDepth)
  /\ outcome' = Settled(tasks'[<<>>])
  /\ reply' = Reply(c, outcome')
  /\ UNCHANGED <<world, last>>

\* the core call getStories(kind, limit, offset) starts
StartStories(c) ==
  /\ call' = c
  /\ tasks' = (<<>> :> StoriesEntry(c.kind))
  /\ fetches' = fetches \cup {[url |-> ListUrl(c.kind), path |-> <<>>, level |-> 0]}
  /\ outcome' = Settled(tasks'[<<>>])
  /\ reply' = Reply(c, outcome')
  /\ UNCHANGED <<world, last>>

\* getCommentTree(itemId, maxDepth, currentDepth) is called
CallGetCommentTree ==
  /\ call.op = "none"
  /\ \E itemId \in ItemIds, maxDepth \in 0..MaxDepthArg, currentDepth \in 0..(MaxDepthArg + 1) :
       StartTree([op |-> "getCommentTree", itemId |-> itemId,
                  maxDepth |-> maxDepth, currentDepth |-> currentDepth])

\* getStories(kind, limit, offset) is called
CallGetStories ==
  /\ call.op = "none"
  /\ \E kind \in Kinds, limit \in 1..MaxLimitArg, offset \in 0..MaxOffsetArg :
       StartStories([op |-> "getStories", kind |-> kind, limit |-> limit, offset |-> offset])

\* the hn_get_comments handler is called with id and depth
ToolGetComments ==
  /\ call.op = "none"
  /\ \E id \in ItemIds, depth \in RawDepths :
       StartTree([op |-> "hn_get_comments", id |-> id, depth |-> depth,
                  itemId |-> id, maxDepth |-> SafeDepth(depth), currentDepth |-> 0])

\* the handler of a story listing tool is called with limit and offset
ToolStories ==
  /\ call.op = "none"
  /\ \E kind \in Kinds, limit \in RawLimits, offset \in RawOffsets :
       StartStories([op |-> "story_tool", kind |-> kind, rawLimit |-> limit,
                     rawOffset |-> offset, limit |-> SafeLimit(limit),
                     offset |-> SafeOffset(offset)])

\* what every turn ends with: the outermost promise and the handler awaiting it
Turn(p) ==
  /\ outcome' = Settled(tasks'[<<>>])
  /\ reply' = IF reply = NoReply THEN Reply(call, outcome') ELSE reply
  /\ last' = p
  /\ UNCHANGED <<world, call>>

\* the fetch of getItem of the getCommentTree call at p settles as res
ItemFetchSettles(p, res) ==
  /\ call.op \in TreeOps
  /\ tasks[p].pc = "fetching"
  /\ LET got == fetchJson(p, res)
     IN  tasks' = IF got.pc = "reading"
                    THEN [tasks EXCEPT ![p].res = res, ![p].pc = "reading"]
                    ELSE Once(LAMBDA ts : TreeAfterItem(world, ts, p, call.maxDepth, got),
                              [tasks EXCEPT ![p].res = res])
  /\ fetches' = fetches \cup NewFetches(tasks, tasks', call.currentDepth)
  /\ Turn(p)

\* the body of the response to the getCommentTree call at p has been read
ItemBodyArrives(p, body) ==
  /\ call.op \in TreeOps
  /\ tasks[p].pc = "reading"
  /\ LET got == resJson(p, body, Origin(world, ItemUrl(tasks[p].id)))
     IN  tasks' = Once(LAMBDA ts : TreeAfterItem(world, ts, p, call.maxDepth, got),
                       [tasks EXCEPT ![p].res.body = body])
  /\ fetches' = fetches \cup NewFetches(tasks, tasks', call.currentDepth)
  /\ Turn(p)

\* the listing fetch of getStoryIds settles as res
ListingFetchSettles(res) ==
  /\ call.op \in StoryOps
  /\ tasks[<<>>].pc = "fetching"
  /\ LET got == fetchJson(<<>>, res)
     IN  tasks' = IF got.pc = "reading"
                    THEN [tasks EXCEPT ![<<>>].res = res, ![<<>>].pc = "reading"]
                    ELSE StoriesAfterIds([tasks EXCEPT ![<<>>].res = res],
                                         call.limit, call.offset, getStoryIds(got))
  /\ fetches' = fetches \cup NewItemFetches(tasks, tasks')
  /\ Turn(<<>>)

\* the body of the listing response has been read
ListingBodyArrives(body) ==
  /\ call.op \in StoryOps
  /\ tasks[<<>>].pc = "reading"
  /\ LET got == getStoryIds(resJson(<<>>, body, Origin(world, ListUrl(call.kind))))
     IN  tasks' = StoriesAfterIds([tasks EXCEPT ![<<>>].res.body = body],
                                  call.limit, call.offset, got)
  /\ fetches' = fetches \cup NewItemFetches(tasks, tasks')
  /\ Turn(<<>>)

\* getItem of page position i settled as got
StoryItemSettled(ts, i, got) ==
  StoriesResume([ts EXCEPT ![<<i>>].pc = got.pc,
                           ![<<i>>].value = got.value,
                           ![<<i>>].err = got.err])

\* the fetch of getItem of page position i settles as res
StoryItemFetchSettles(i, res) ==
  /\ call.op \in StoryOps
  /\ <<i>> \in DOMAIN tasks
  /\ tasks[<<i>>].pc = "fetching"
  /\ LET got == fetchJson(<<i>>, res)
     IN  tasks' = IF got.pc = "reading"
                    THEN [tasks EXCEPT ![<<i>>].res = res, ![<<i>>].pc = "reading"]
                    ELSE StoryItemSettled([tasks EXCEPT ![<<i>>].res = res], i, got)
  /\ UNCHANGED fetches
  /\ Turn(<<i>>)

\* the body of the response for page position i has been read
StoryItemBodyArrives(i, body) ==
  /\ call.op \in StoryOps
  /\ <<i>> \in DOMAIN tasks
  /\ tasks[<<i>>].pc = "reading"
  /\ LET got == resJson(<<i>>, body, Origin(world, ItemUrl(tasks[<<i>>].id)))
     IN  tasks' = StoryItemSettled([tasks EXCEPT ![<<i>>].res.body = body], i, got)
  /\ UNCHANGED fetches
  /\ Turn(<<i>>)

\* some fetch of the comment tree settles
TreeFetchSettles == \E p \in DOMAIN tasks, res \in Settlements : ItemFetchSettles(p, res)

\* some body of the comment tree has been read
TreeBodyArrives == \E p \in DOMAIN tasks, body \in Bodies : ItemBodyArrives(p, body)

\* the same for the page of stories
StoryFetchSettles ==
  \E i \in 1..Cardinality(DOMAIN tasks), res \in Settlements : StoryItemFetchSettles(i, res)

StoryBodyArrives ==
  \E i \in 1..Cardinality(DOMAIN tasks), body \in Bodies : StoryItemBodyArrives(i, body)

Next ==
  \/ CallGetCommentTree
  \/ CallGetStories
  \/ ToolGetComments
  \/ ToolStories
  \/ TreeFetchSettles
  \/ TreeBodyArrives
  \/ \E res \in Settlements : ListingFetchSettles(res)
  \/ \E body \in Bodies : ListingBodyArrives(body)
  \/ StoryFetchSettles
  \/ StoryBodyArrives

Spec == Init /\ [][Next]_vars

\* the calls of getCommentTree alone
TreeNext ==
  \/ CallGetCommentTree
  \/ ToolGetComments
  \/ TreeFetchSettles
  \/ TreeBodyArrives

\* every fetch issued for the comment tree settles in the end, and every
\* body that is being read is read in the end
FairSpec ==
  Init /\ [][TreeNext]_vars /\ WF_vars(TreeFetchSettles) /\ WF_vars(TreeBodyArrives)

(***************************************************************************)
(* What the claims speak of, read off the responses and the origin alone.  *)
(***************************************************************************)
\* the fetch of t rejected: no response
FetchFailed(t) == t.res = Failed

\* the fetch of t got a non-success response
NonSuccess(t) == t.res.status # 0 /\ ~ResOk(t.res)

\* the fetch of t got a success response whose body is no JSON
Malformed(t) == ResOk(t.res) /\ t.res.body = "garbage"

\* the fetch of the item of t yields absence: a non-success response, or the
\* origin's null
ItemAbsent(t) ==
  NonSuccess(t) \/ (ResOk(t.res) /\ t.res.body = "json" /\ world.items[t.id] = Null)

\* the fetch of the item of t yields the item
ItemPresent(t) ==
  ResOk(t.res) /\ t.res.body = "json" /\ world.items[t.id] # Null

\* the calls whose fetch has not completed: not settled, or its body not read
Fetching == {p \in DOMAIN tasks : tasks[p].pc \in {"fetching", "reading"}}

Completed == outcome.state \in {"returned", "threw"}

\* the places among 1..n whose call at Append(p, i) resolved to a value
PresentAt(p, n) == {i \in 1..n : tasks[Append(p, i)].value # Null}

\* the position of place i among the places of S, counted from 1
Rank(S, i) == Cardinality({j \in S : j <= i})

\* C1: getCommentTree(id, maxDepth, currentDepth) with currentDepth > maxDepth
\* returns absence and issues no fetch.
C1_DepthExceededNoFetch ==
  (call.op = "getCommentTree" /\ call.currentDepth > call.maxDepth)
    => /\ outcome = [state |-> "returned", value |-> Null, err |-> NoError]
       /\ fetches = {}
       /\ Fetching = {}

C1_Witness ==
  /\ call.op = "getCommentTree"
  /\ call.currentDepth > call.maxDepth
  /\ call.maxDepth >= 1
  /\ outcome.state = "returned"
  /\ world.items[call.itemId] # Null

\* the getCommentTree calls that expanded their children and returned a node
Expanded ==
  {p \in DOMAIN tasks :
     /\ tasks[p].pc = "resolved"
     /\ tasks[p].value # Null
     /\ "kids" \in DOMAIN world.items[tasks[p].id]
     /\ Len(p) + call.currentDepth < call.maxDepth}

\* C2: the children of a node whose children were expanded are the non-absent
\* child results in the order of the item's child ids, whatever the order in
\* which the child fetches completed; an absent child leaves no placeholder.
C2_ChildrenInKidOrder ==
  call.op \in TreeOps =>
    \A p \in Expanded :
      LET kids     == world.items[tasks[p].id].kids
          children == tasks[p].value.children
          S        == PresentAt(p, Len(kids))
      IN  /\ Len(children) = Cardinality(S)
          /\ \A k \in DOMAIN children : children[k] # Null
          /\ \A i \in S : /\ children[Rank(S, i)] = tasks[Append(p, i)].value
                          /\ children[Rank(S, i)].id = kids[i]

\* the first listed child completed last, a later sibling is dropped, and two
\* children are in the node
C2_Witness ==
  /\ call.op = "getCommentTree"
  /\ outcome.state = "returned"
  /\ <<>> \in Expanded
  /\ last = <<1>>
  /\ Len(world.items[call.itemId].kids) = 3
  /\ PresentAt(<<>>, 3) = {1, 3}
  /\ Len(outcome.value.children) = 2

\* node and all below it respect the depth budget, node being at level
RECURSIVE WithinDepth(_, _)
WithinDepth(node, level) ==
  /\ level <= call.maxDepth
  /\ level = call.maxDepth => node.children = <<>>
  /\ (~("kids" \in DOMAIN world.items[node.id]) \/ world.items[node.id].kids = <<>>)
       => node.children = <<>>
  /\ \A k \in DOMAIN node.children : WithinDepth(node.children[k], level + 1)

\* C3: a tree returned by a call started at currentDepth 0 has no node below
\* level maxDepth, its nodes at level maxDepth have no children (so with
\* maxDepth 0 the root has none), and a node whose item has no child ids has
\* no children.
C3_TreeWithinDepth ==
  (call.op \in TreeOps /\ call.currentDepth = 0
     /\ outcome.state = "returned" /\ outcome.value # Null)
    => WithinDepth(outcome.value, 0)

\* a root with child ids is returned without children at maxDepth 0
C3_WitnessTruncated ==
  /\ call.op = "getCommentTree"
  /\ call.currentDepth = 0
  /\ call.maxDepth = 0
  /\ outcome.state = "returned"
  /\ outcome.value # Null
  /\ "kids" \in DOMAIN world.items[call.itemId]
  /\ world.items[call.itemId].kids # <<>>
  /\ outcome.value.children = <<>>

\* the id list getStories got from getStoryIds
IdList ==
  IF ResOk(tasks[<<>>].res) /\ tasks[<<>>].res.body = "json"
    THEN world.lists[call.kind] ELSE <<>>

\* C4: getStories returns the items that resolved for the ids at positions
\* [offset, offset + limit) of the id list, in the list's order whatever the
\* completion order, and total = the length of the whole id list; so there
\* are at most limit and at most max(0, total - offset) items, and none when
\* offset >= total.
C4_StoriesPage ==
  (call.op \in StoryOps /\ outcome.state = "returned")
    => LET items == outcome.value.items
           total == outcome.value.total
           n     == Max(0, Min(call.limit, Len(IdList) - call.offset))
           S     == {i \in 1..n : ItemPresent(tasks[<<i>>])}
       IN  /\ total = Len(IdList)
           /\ DOMAIN tasks = {<<>>} \cup {<<i>> : i \in 1..n}
           /\ \A i \in 1..n : tasks[<<i>>].id = IdList[call.offset + i]
           /\ Len(items) = Cardinality(S)
           /\ \A i \in S : items[Rank(S, i)] = world.items[IdList[call.offset + i]]
           /\ Len(items) <= call.limit
           /\ Len(items) <= Max(0, total - call.offset)
           /\ call.offset >= total => items = <<>>

\* a page from the middle of the list, its first item fetched last, one dropped
C4_Witness ==
  /\ call.op = "getStories"
  /\ outcome.state = "returned"
  /\ call.offset = 1
  /\ call.limit = 2
  /\ outcome.value.total = 4
  /\ NonSuccess(tasks[<<2>>])
  /\ Len(outcome.value.items) = 1
  /\ last = <<1>>

\* the calls that awaited a batch of sub-fetches: every one of the batch is there
BatchLaunched ==
  /\ call.op \in TreeOps =>
       \A p \in DOMAIN tasks :
         (ItemPresent(tasks[p]) /\ "kids" \in DOMAIN world.items[tasks[p].id]
            /\ Len(p) + call.currentDepth < call.maxDepth)
           => \A i \in DOMAIN world.items[tasks[p].id].kids :
                \E f \in fetches : f.path = Append(p, i)
  /\ (call.op \in StoryOps /\ tasks[<<>>].pc \notin {"fetching", "reading"})
       => \A i \in 1..Max(0, Min(call.limit, Len(IdList) - call.offset)) :
            \E f \in fetches : f.path = <<i>>

\* C5 as stated: the call neither returns nor fails before every sub-fetch it
\* launched has completed.
C5_NoCompletionBeforeAllDone == Completed => Fetching = {}

\* C5 as amended: the sub-fetches of a batch are launched together; the call
\* returns a result only when every sub-fetch it launched has completed; a
\* sibling with a non-success response surfaces as that item's absence and
\* fails nothing; a sub-fetch that ends in a fatal error (a malformed payload
\* or a fetch that rejected) fails the call, and does so at once, siblings
\* still in flight or not, and nothing else fails it.
C5_JoinAllButFailFast ==
  /\ BatchLaunched
  /\ outcome.state = "returned" => Fetching = {}
  /\ outcome.state = "threw"
       <=> \E p \in DOMAIN tasks : Malformed(tasks[p]) \/ FetchFailed(tasks[p])
  /\ \A p \in DOMAIN tasks \ {<<>>} :
       NonSuccess(tasks[p]) => (tasks[p].pc = "resolved" /\ tasks[p].value = Null)

\* a batch of three returned with one sibling failed and two resolved
C5_Witness ==
  /\ call.op \in StoryOps
  /\ outcome.state = "returned"
  /\ Cardinality(DOMAIN tasks) = 4
  /\ NonSuccess(tasks[<<2>>])
  /\ Len(outcome.value.items) = 2

\* the error the fetch of the call at p ended in
ParseError(p) == [kind |-> "SyntaxError", at |-> p]

\* a fetch with a malformed payload fails, the outermost call and the handler
\* awaiting it fail instead of returning, and a non-success response yields
\* absence
MalformedFailsTheCall ==
  /\ \A p \in DOMAIN tasks :
       Malformed(tasks[p]) => (tasks[p].pc = "rejected" /\ tasks[p].err = ParseError(p))
  /\ (\E p \in DOMAIN tasks : Malformed(tasks[p]))
       => /\ outcome.state = "threw"
          /\ call.op \in {"hn_get_comments", "story_tool"}
               => reply = [state |-> "threw", err |-> outcome.err]
  /\ \A p \in DOMAIN tasks :
       NonSuccess(tasks[p])
         => IF p = <<>> /\ call.op \in StoryOps
              THEN tasks[p].allIds = <<>> /\ tasks[p].pc = "resolved"
              ELSE tasks[p].pc = "resolved" /\ tasks[p].value = Null

\* C6 as stated: a success response whose body is no JSON makes the fetch
\* fail, and the outermost call fails with that error instead of returning; a
\* non-success response yields absence, never a failure.
C6_FailsWithThatError ==
  /\ MalformedFailsTheCall
  /\ \A p \in DOMAIN tasks : Malformed(tasks[p]) => outcome.err = ParseError(p)

\* the turn in which the body at p is found malformed fails a call that has
\* not failed with that error, and leaves the failure of one that has as it is
MalformedStep ==
  \A p \in DOMAIN tasks :
    (tasks[p].pc = "reading" /\ Malformed(tasks'[p]))
      => IF outcome.state = "threw"
           THEN outcome' = outcome /\ reply' = reply
           ELSE outcome' = [state |-> "threw", value |-> Null, err |-> ParseError(p)]

\* C6 as amended: a success response whose body is no JSON makes the fetch
\* fail, and the outermost call fails instead of returning: with that error,
\* unless it has failed already with the error of another sub-fetch, which it
\* keeps; a non-success response yields absence, never a failure.
C6_MalformedIsFatal ==
  /\ []MalformedFailsTheCall
  /\ [][MalformedStep]_vars

\* a page item's malformed payload comes in after the rejected fetch of its
\* sibling has failed the call
C6_Witness ==
  /\ call.op = "story_tool"
  /\ outcome.state = "threw"
  /\ outcome.err = [kind |-> "TypeError", at |-> <<1>>]
  /\ <<2>> \in DOMAIN tasks
  /\ Malformed(tasks[<<2>>])
  /\ last = <<2>>

\* C7: with no malformed payload, the outermost call returns absence exactly
\* when the fetch of the root yields absence; an absent descendant never makes
\* its parent or the root absent.  (Without a result there is no absence: the
\* call fails only where a fetch rejected.)
C7_AbsentIffRootAbsent ==
  (call.op \in TreeOps /\ call.currentDepth <= call.maxDepth
     /\ \A p \in DOMAIN tasks : ~Malformed(tasks[p]))
    => /\ outcome.state = "threw" <=> \E p \in DOMAIN tasks : FetchFailed(tasks[p])
       /\ Fetching = {} => Completed
       /\ ItemAbsent(tasks[<<>>])
            => outcome = [state |-> "returned", value |-> Null, err |-> NoError]
       /\ outcome.state = "returned" => (outcome.value = Null <=> ItemAbsent(tasks[<<>>]))
       /\ \A p \in DOMAIN tasks \ {<<>>} :
            /\ ItemPresent(tasks[Parent(p)])
            /\ (tasks[Parent(p)].pc = "resolved" => tasks[Parent(p)].value # Null)

\* the root is returned although a child and a grandchild are absent
C7_Witness ==
  /\ call.op = "getCommentTree"
  /\ outcome.state = "returned"
  /\ outcome.value # Null
  /\ \E p \in DOMAIN tasks : Len(p) = 1 /\ ItemAbsent(tasks[p])
  /\ \E p \in DOMAIN tasks : Len(p) = 2 /\ ItemAbsent(tasks[p])

\* C8: on a non-success response of the listing fetch getStoryIds returns an
\* empty sequence, and getStories returns no items and total 0 without any
\* item fetch.
C8_ListingAbsentIsEmpty ==
  (call.op \in StoryOps /\ NonSuccess(tasks[<<>>]))
    => /\ tasks[<<>>].allIds = <<>>
       /\ outcome = [state |-> "returned", value |-> [items |-> <<>>, total |-> 0],
                     err |-> NoError]
       /\ fetches = {[url |-> ListUrl(call.kind), path |-> <<>>, level |-> 0]}
       /\ DOMAIN tasks = {<<>>}

C8_Witness ==
  /\ call.op = "getStories"
  /\ NonSuccess(tasks[<<>>])
  /\ Len(world.lists[call.kind]) = 4
  /\ call.offset = 0
  /\ outcome.state = "returned"

\* every fetch is made at a level in 0..maxDepth, and there are no more
\* fetches than nodes in the unfolding of the item graph down to maxDepth
FetchesBounded ==
  call.op \in TreeOps =>
    /\ \A f \in fetches : f.level \in 0..call.maxDepth
    /\ \A f \in fetches : f.level = call.currentDepth + Len(f.path)
    /\ Cardinality(fetches)
         <= Unfolding(world, call.itemId, call.maxDepth, call.currentDepth)

\* C9: whatever the item graph (child ids may repeat or form cycles),
\* getCommentTree completes once its fetches complete, fetches only at levels
\* 0..maxDepth, and issues at most one fetch per node of the unfolding of the
\* graph from the root down to level maxDepth.
C9_TerminatesWithinUnfolding ==
  /\ []FetchesBounded
  /\ (call.op \in TreeOps) ~> (Completed /\ (outcome.state = "returned" => Fetching = {}))

\* the whole unfolding of a graph with a cycle and a repeated child was fetched
C9_Witness ==
  /\ call.op = "getCommentTree"
  /\ world = WorldCycle
  /\ call.itemId = 1
  /\ call.maxDepth = 2
  /\ call.currentDepth = 0
  /\ outcome.state = "returned"
  /\ Cardinality(fetches) = 5
  /\ Fetching = {}

\* C10: hn_get_comments calls getCommentTree with a depth in [1,5] and
\* currentDepth 0, the story tools call getStories with a limit in [1,50] and
\* an offset >= 0, whatever numbers they receive; so hn_get_comments answers
\* "not found" exactly when the fetch of the root item yields absence.
C10_HandlersPassBoundedArgs ==
  /\ call.op = "hn_get_comments" =>
       /\ call.maxDepth \in MinDepth..MaxDepth
       /\ call.depth \in MinDepth..MaxDepth => call.maxDepth = call.depth
       /\ call.currentDepth = 0
       /\ call.itemId = call.id
       /\ \E f \in fetches : f.path = <<>> /\ f.url = ItemUrl(call.id)
       /\ reply.state = "sent" => (reply.isError <=> ItemAbsent(tasks[<<>>]))
       /\ ItemAbsent(tasks[<<>>])
            => reply = [state |-> "sent", isError |-> TRUE, text |-> "not found"]
  /\ call.op = "story_tool" =>
       /\ call.limit \in MinLimit..MaxLimit
       /\ call.rawLimit \in MinLimit..MaxLimit => call.limit = call.rawLimit
       /\ call.offset >= 0
       /\ call.rawOffset >= 0 => call.offset = call.rawOffset

\* a depth below the range was raised to 1 and the root was not found
C10_Witness ==
  /\ call.op = "hn_get_comments"
  /\ call.depth < MinDepth
  /\ call.maxDepth = MinDepth
  /\ reply.state = "sent"
  /\ reply.isError

====
